---- MODULE Spec2Model ----
(***************************************************************************)
(* A model of src/main.py: EmailProcessor (mailbox scan and link           *)
(* extraction), LinkHandler (HTTP visits through a requests session        *)
(* mounted with urllib3's Retry) and main.                                 *)
(*                                                                         *)
(* Text is modelled as sequences of one-character strings so that lower()  *)
(* and the substring test are computed.  A message is a tree of parts, as  *)
(* email.message.Message is.  None is the empty sequence, Some(x) is <<x>>.*)
(***************************************************************************)
EXTENDS Integers, Sequences, FiniteSets, TLC

VARIABLES
    pc,                 \* position of the running function
    html_content,       \* argument of _parse_html_for_links
    result,             \* value returned by the pure function under call
    msg,                \* the message at hand: None (<<>>) or <<message>>
    mailbox,            \* the IMAP server's answers: search, fetch per id
    session,            \* self.mail: "none", "open", "closed"
    email_ids,          \* search_data[0].split()
    idx,                \* position of the for loop over email_ids
    unsubscribe_links,  \* the accumulator of find_unsubscribe_links
    logouts,            \* number of calls of self.mail.logout()
    exc,                \* the exception propagating, or NoExc
    links,              \* argument of access_links
    link_idx,           \* position of the for loop over links
    total,              \* Retry.total left for the request at hand
    hist,               \* results of the GET attempts of the link at hand
    response,           \* what session.get gave for the link at hand
    log                 \* the per-link records access_links wrote

vars == << pc, html_content, result, msg, mailbox, session, email_ids, idx,
           unsubscribe_links, logouts, exc, links, link_idx, total, hist,
           response, log >>

----------------------------------------------------------------------------
(* Bounds of the model *)

MaxAnchors == 2
MaxLeaves == 2
MaxDepth == 2
MaxIds == 3
MaxLinks == 2
MaxMainIds == 2

----------------------------------------------------------------------------
(* Text *)

LowerChar(c) ==
    CASE c = "A" -> "a" [] c = "B" -> "b" [] c = "C" -> "c" [] c = "D" -> "d"
      [] c = "E" -> "e" [] c = "F" -> "f" [] c = "G" -> "g" [] c = "H" -> "h"
      [] c = "I" -> "i" [] c = "J" -> "j" [] c = "K" -> "k" [] c = "L" -> "l"
      [] c = "M" -> "m" [] c = "N" -> "n" [] c = "O" -> "o" [] c = "P" -> "p"
      [] c = "Q" -> "q" [] c = "R" -> "r" [] c = "S" -> "s" [] c = "T" -> "t"
      [] c = "U" -> "u" [] c = "V" -> "v" [] c = "W" -> "w" [] c = "X" -> "x"
      [] c = "Y" -> "y" [] c = "Z" -> "z" [] OTHER -> c

\* str.lower()
Lower(s) == [i \in 1..Len(s) |-> LowerChar(s[i])]

\* needle in s
Contains(needle, s) ==
    \E i \in 0..(Len(s) - Len(needle)) :
        SubSeq(s, i + 1, i + Len(needle)) = needle

\* s.startswith(prefix)
StartsWith(s, prefix) ==
    /\ Len(s) >= Len(prefix)
    /\ SubSeq(s, 1, Len(prefix)) = prefix

RECURSIVE Flatten(_)
\* the concatenation of a sequence of sequences
Flatten(ss) == IF ss = << >> THEN << >> ELSE Head(ss) \o Flatten(Tail(ss))

\* "unsubscribe", the literal of line 51
Needle == << "u", "n", "s", "u", "b", "s", "c", "r", "i", "b", "e" >>

HttpPrefix == << "h", "t", "t", "p", ":", "/", "/" >>
HttpsPrefix == << "h", "t", "t", "p", "s", ":", "/", "/" >>
Host == << "x", ".", "c", "o", "m", "/" >>

\* https://x.com/unsubscribe?u=1
HrefUnsub == HttpsPrefix \o Host \o Needle \o << "?", "u", "=", "1" >>
\* https://x.com/UNSUBSCRIBE
HrefUpper ==
    HttpsPrefix \o Host
        \o << "U", "N", "S", "U", "B", "S", "C", "R", "I", "B", "E" >>
\* https://x.com/stay
HrefStay == HttpsPrefix \o Host \o << "s", "t", "a", "y" >>
\* mailto:unsubscribe@x.com
HrefMailto ==
    << "m", "a", "i", "l", "t", "o", ":" >> \o Needle
        \o << "@", "x", ".", "c", "o", "m" >>
\* href=""
HrefEmpty == << >>

----------------------------------------------------------------------------
(* HTML documents: the sequence of their elements, in document order *)

Element(tag, has_href, href) ==
    [tag |-> tag, has_href |-> has_href, href |-> href]

ElementSamples ==
    { Element("a", TRUE, HrefUnsub), Element("a", TRUE, HrefUpper),
      Element("a", TRUE, HrefStay), Element("a", TRUE, HrefMailto),
      Element("a", TRUE, HrefEmpty), Element("a", FALSE, << >>),
      Element("link", TRUE, HrefUnsub) }

RECURSIVE SeqsUpTo(_, _)
\* the sequences over S of length at most n
SeqsUpTo(S, n) ==
    IF n = 0 THEN { << >> }
    ELSE LET shorter == SeqsUpTo(S, n - 1)
         IN  shorter \cup { Append(s, x) : s \in shorter, x \in S }

HtmlDocs == SeqsUpTo(ElementSamples, MaxAnchors)

\* soup.find_all('a', href=True)
FindAllAnchorsWithHref(doc) ==
    SelectSeq(doc, LAMBDA e : e.tag = "a" /\ e.has_href)

\* "unsubscribe" in link["href"].lower() without the lower()
HrefMatchesCaseSensitive(href) == Contains(Needle, href)

\* "unsubscribe" in link["href"].lower()
HrefMatches(href) == Contains(Needle, Lower(href))

\* EmailProcessor._parse_html_for_links
parse_html_for_links(doc) ==
    LET anchors == FindAllAnchorsWithHref(doc)
        kept == SelectSeq(anchors, LAMBDA e : HrefMatches(e.href))
    IN  [i \in 1..Len(kept) |-> kept[i].href]

----------------------------------------------------------------------------
(* Messages: email.message.Message, a tree of parts.  utf8 says whether    *)
(* the decoded payload bytes are valid UTF-8; html is the markup the bytes *)
(* hold; nheaders is len(message), the number of header fields.            *)

Part(nheaders, ctype, utf8, html, parts) ==
    [nheaders |-> nheaders, ctype |-> ctype, utf8 |-> utf8, html |-> html,
     parts |-> parts]

Leaf(ctype, utf8, html) == Part(1, ctype, utf8, html, << >>)

Container(parts) == Part(1, "multipart/mixed", TRUE, << >>, parts)

LeafSamples ==
    { Leaf("text/html", TRUE, << Element("a", TRUE, HrefUnsub) >>),
      Leaf("text/html", TRUE,
           << Element("a", TRUE, HrefStay), Element("a", TRUE, HrefUpper) >>),
      Leaf("text/html", FALSE, << Element("a", TRUE, HrefUpper) >>),
      Leaf("text/html", TRUE,
           << Element("a", TRUE, HrefUnsub), Element("a", TRUE, HrefUnsub) >>),
      Leaf("text/plain", TRUE, << Element("a", TRUE, HrefUnsub) >>),
      Leaf("text/plain", FALSE, << >>) }

\* a message parsed from bytes that hold no header field: its content type
\* is the default text/plain and len(message) is 0
HeaderlessSamples ==
    { Part(0, "text/plain", TRUE, << Element("a", TRUE, HrefUnsub) >>, << >>),
      Part(0, "text/plain", FALSE, << >>, << >>) }

RECURSIVE Trees(_, _)
RECURSIVE Forests(_, _)
\* the parts of depth at most d with exactly n leaves
Trees(d, n) ==
    (IF n = 1 THEN LeafSamples ELSE { })
        \cup (IF d > 0 THEN { Container(f) : f \in Forests(d - 1, n) } ELSE { })
\* the non-empty sequences of parts of depth at most d with n leaves in all
Forests(d, n) ==
    IF n = 0 THEN { << >> }
    ELSE UNION { { << t >> \o f : t \in Trees(d, k), f \in Forests(d, n - k) }
                 : k \in 1..n }

Messages ==
    HeaderlessSamples \cup UNION { Trees(MaxDepth, n) : n \in 1..MaxLeaves }

\* Message.is_multipart(): the payload is a list of parts
is_multipart(p) == p.parts # << >>

\* Message.get_content_type()
get_content_type(p) == p.ctype

\* for part in msg.get_payload(): the direct sub-parts only
WalkTopLevelOnly(p) == << p >> \o p.parts

RECURSIVE walk(_)
\* Message.walk(): the part, then each sub-part's walk, depth first
walk(p) ==
    << p >> \o
        (IF is_multipart(p)
         THEN Flatten([i \in 1..Len(p.parts) |-> walk(p.parts[i])])
         ELSE << >>)

\* bytes.decode(): the text, or UnicodeDecodeError
bytes_decode(p) ==
    IF p.utf8 THEN [raised |-> FALSE, text |-> p.html]
    ELSE [raised |-> TRUE, text |-> << >>]

\* BeautifulSoup(bytes): the markup is decoded by the parser's own encoding
\* detection, which does not raise; the ASCII anchors are found
soup_of_bytes(p) == p.html

\* line 76
IsHtmlPart(p) == get_content_type(p) = "text/html"

\* lines 76-78: the links one walked part contributes
LinksOfWalkedPart(p) ==
    IF IsHtmlPart(p) THEN parse_html_for_links(soup_of_bytes(p)) ELSE << >>

\* lines 80-82: the single-part branch
SinglePart(m) ==
    LET content == bytes_decode(m)
    IN  IF content.raised
        THEN [raised |-> TRUE, links |-> << >>]
        ELSE IF get_content_type(m) = "text/html"
             THEN [raised |-> FALSE,
                   links |-> parse_html_for_links(content.text)]
             ELSE [raised |-> FALSE, links |-> << >>]

\* lines 75-78: the multi-part branch
MultiPart(m) ==
    LET ps == walk(m)
    IN  [raised |-> FALSE,
         links |-> Flatten([i \in 1..Len(ps) |-> LinksOfWalkedPart(ps[i])])]

\* EmailProcessor._extract_links_from_email
extract_links_from_email(m) ==
    IF is_multipart(m) THEN MultiPart(m) ELSE SinglePart(m)

----------------------------------------------------------------------------
(* Values of the variables that a specification does not use *)

None == << >>
Some(x) == << x >>
NoExc == "none"
NoResponse ==
    [kind |-> "none", status |-> 0, retry_after |-> FALSE, name |-> ""]
NoMailbox == [connect |-> "OK", search |-> "OK", fetch |-> << >>]

----------------------------------------------------------------------------
(* _parse_html_for_links called on every document                          *)

InitParse ==
    /\ pc = "parse_call"
    /\ \E doc \in HtmlDocs :
          /\ html_content = doc
          /\ result = << >>
          /\ msg = None
          /\ mailbox = NoMailbox
          /\ session = "none"
          /\ email_ids = << >>
          /\ idx = 0
          /\ unsubscribe_links = << >>
          /\ logouts = 0
          /\ exc = NoExc
          /\ links = << >>
          /\ link_idx = 0
          /\ total = 0
          /\ hist = << >>
          /\ response = NoResponse
          /\ log = << >>

ParseHtml ==
    /\ pc = "parse_call"
    /\ result' = parse_html_for_links(html_content)
    /\ pc' = "parse_returned"
    /\ UNCHANGED << html_content, msg, mailbox, session, email_ids, idx,
                    unsubscribe_links, logouts, exc, links, link_idx, total,
                    hist, response, log >>

NextParse == ParseHtml

SpecParse == InitParse /\ [][NextParse]_vars

----------------------------------------------------------------------------
(* _extract_links_from_email called on every message                       *)

InitExtract ==
    /\ pc = "extract_call"
    /\ \E m \in Messages :
          /\ msg = Some(m)
          /\ html_content = << >>
          /\ result = << >>
          /\ mailbox = NoMailbox
          /\ session = "none"
          /\ email_ids = << >>
          /\ idx = 0
          /\ unsubscribe_links = << >>
          /\ logouts = 0
          /\ exc = NoExc
          /\ links = << >>
          /\ link_idx = 0
          /\ total = 0
          /\ hist = << >>
          /\ response = NoResponse
          /\ log = << >>

\* an extraction that empties the message it reads, as one that took the
\* payloads out of the parts would
ExtractReturnsConsumingMessage ==
    /\ pc = "extract_call"
    /\ LET r == extract_links_from_email(msg[1])
       IN  /\ ~r.raised
           /\ result' = r.links
    /\ msg' = Some([msg[1] EXCEPT !.html = << >>, !.parts = << >>])
    /\ pc' = "extract_returned"
    /\ UNCHANGED << html_content, mailbox, session, email_ids, idx,
                    unsubscribe_links, logouts, exc, links, link_idx, total,
                    hist, response, log >>

ExtractReturns ==
    /\ pc = "extract_call"
    /\ LET r == extract_links_from_email(msg[1])
       IN  /\ ~r.raised
           /\ result' = r.links
    /\ pc' = "extract_returned"
    /\ UNCHANGED << html_content, msg, mailbox, session, email_ids, idx,
                    unsubscribe_links, logouts, exc, links, link_idx, total,
                    hist, response, log >>

ExtractRaises ==
    /\ pc = "extract_call"
    /\ extract_links_from_email(msg[1]).raised
    /\ exc' = "UnicodeDecodeError"
    /\ pc' = "extract_raised"
    /\ UNCHANGED << html_content, result, msg, mailbox, session, email_ids,
                    idx, unsubscribe_links, logouts, links, link_idx, total,
                    hist, response, log >>

\* a second call of _extract_links_from_email on the message the first call
\* was given, as it is after that call
ExtractAgain ==
    /\ pc = "extract_returned"
    /\ LET r == extract_links_from_email(msg[1])
       IN  /\ ~r.raised
           /\ result' = r.links
    /\ pc' = "extract_again"
    /\ UNCHANGED << html_content, msg, mailbox, session, email_ids, idx,
                    unsubscribe_links, logouts, exc, links, link_idx, total,
                    hist, response, log >>

NextExtract == ExtractReturns \/ ExtractRaises \/ ExtractAgain

SpecExtract == InitExtract /\ [][NextExtract]_vars

----------------------------------------------------------------------------
(* The mailbox: what the IMAP server answers.  fetch[i] is the answer to   *)
(* the fetch of the i-th identifier: None when mail.fetch raises or gives  *)
(* no data, Some(message) otherwise.                                       *)

ScanMessages ==
    { Leaf("text/html", TRUE, << Element("a", TRUE, HrefUnsub) >>),
      Container(<< Leaf("text/plain", TRUE, << Element("a", TRUE, HrefUnsub) >>),
                   Leaf("text/html", TRUE,
                        << Element("a", TRUE, HrefStay),
                           Element("a", TRUE, HrefUpper) >>) >>),
      Container(<< Container(<< Leaf("text/html", FALSE,
                                     << Element("a", TRUE, HrefMailto) >>) >>) >>),
      Leaf("text/plain", FALSE, << >>),
      Part(0, "text/plain", FALSE, << >>, << >>) }

\* a message that holds the same link twice
DuplicateLinksMessage ==
    Leaf("text/html", TRUE,
         << Element("a", TRUE, HrefUnsub), Element("a", TRUE, HrefUnsub) >>)

FetchAnswers == { None } \cup { Some(m) : m \in ScanMessages }

Mailboxes(n) ==
    { [connect |-> "OK", search |-> s, fetch |-> f] :
        s \in { "OK", "error" },
        f \in SeqsUpTo(FetchAnswers \cup { Some(DuplicateLinksMessage) }, n) }

\* _fetch_email_data without its try/except
fetch_email_data_uncaught(answer) ==
    [raised |-> answer = None, value |-> answer]

\* EmailProcessor._fetch_email_data: every exception is caught, None returned
fetch_email_data(answer) == [raised |-> FALSE, value |-> answer]

\* line 62, "if msg": None is falsy, and so is a Message of length 0
Truthy(v) == v # None /\ v[1].nheaders > 0

\* the links added only when the list does not hold them yet
extend_without_duplicates(acc, new) ==
    acc \o SelectSeq(new, LAMBDA x : \A i \in 1..Len(acc) : acc[i] # x)

\* line 63, list.extend: every new link is appended, in order
extend(acc, new) == acc \o new

\* find_unsubscribe_links with the logout as the try body's last statement
OnRaiseNoFinally == "raised"

\* lines 55, 67: an exception in the try body runs the finally clause
OnRaise == "finally"

SearchOk ==
    /\ pc = "search"
    /\ mailbox.search = "OK"
    /\ email_ids' = [i \in 1..Len(mailbox.fetch) |-> i]
    /\ unsubscribe_links' = << >>
    /\ idx' = 1
    /\ pc' = "loop"
    /\ UNCHANGED << html_content, result, msg, mailbox, session, logouts, exc,
                    links, link_idx, total, hist, response, log >>

SearchRaises ==
    /\ pc = "search"
    /\ mailbox.search = "error"
    /\ exc' = "IMAP4.error"
    /\ pc' = OnRaise
    /\ UNCHANGED << html_content, result, msg, mailbox, session, email_ids,
                    idx, unsubscribe_links, logouts, links, link_idx, total,
                    hist, response, log >>

FetchMessage ==
    /\ pc = "loop"
    /\ idx <= Len(email_ids)
    /\ LET r == fetch_email_data(mailbox.fetch[email_ids[idx]])
       IN  IF r.raised
           THEN /\ exc' = "IMAP4.error"
                /\ pc' = OnRaise
                /\ msg' = msg
           ELSE /\ msg' = r.value
                /\ pc' = "fetched"
                /\ exc' = exc
    /\ UNCHANGED << html_content, result, mailbox, session, email_ids, idx,
                    unsubscribe_links, logouts, links, link_idx, total, hist,
                    response, log >>

SkipMessage ==
    /\ pc = "fetched"
    /\ ~Truthy(msg)
    /\ idx' = idx + 1
    /\ pc' = "loop"
    /\ UNCHANGED << html_content, result, msg, mailbox, session, email_ids,
                    unsubscribe_links, logouts, exc, links, link_idx, total,
                    hist, response, log >>

ExtendLinks ==
    /\ pc = "fetched"
    /\ Truthy(msg)
    /\ LET r == extract_links_from_email(msg[1])
       IN  /\ ~r.raised
           /\ unsubscribe_links' = extend(unsubscribe_links, r.links)
    /\ idx' = idx + 1
    /\ pc' = "loop"
    /\ UNCHANGED << html_content, result, msg, mailbox, session, email_ids,
                    logouts, exc, links, link_idx, total, hist, response, log >>

ExtractionRaises ==
    /\ pc = "fetched"
    /\ Truthy(msg)
    /\ extract_links_from_email(msg[1]).raised
    /\ exc' = "UnicodeDecodeError"
    /\ pc' = OnRaise
    /\ UNCHANGED << html_content, result, msg, mailbox, session, email_ids,
                    idx, unsubscribe_links, logouts, links, link_idx, total,
                    hist, response, log >>

\* the return of line 64 without the finally clause of lines 68-69
ReturnLinksWithoutLogout ==
    /\ pc = "loop"
    /\ idx > Len(email_ids)
    /\ pc' = "returned"
    /\ UNCHANGED << html_content, result, msg, mailbox, session, email_ids,
                    idx, unsubscribe_links, logouts, exc, links, link_idx,
                    total, hist, response, log >>

ReturnLinks ==
    /\ pc = "loop"
    /\ idx > Len(email_ids)
    /\ pc' = "finally"
    /\ UNCHANGED << html_content, result, msg, mailbox, session, email_ids,
                    idx, unsubscribe_links, logouts, exc, links, link_idx,
                    total, hist, response, log >>

Logout ==
    /\ pc = "finally"
    /\ logouts' = logouts + 1
    /\ session' = "closed"
    /\ pc' = IF exc = NoExc THEN "returned" ELSE "raised"
    /\ UNCHANGED << html_content, result, msg, mailbox, email_ids, idx,
                    unsubscribe_links, exc, links, link_idx, total, hist,
                    response, log >>

InitScan ==
    /\ pc = "search"
    /\ mailbox \in Mailboxes(MaxIds)
    /\ session = "open"
    /\ html_content = << >>
    /\ result = << >>
    /\ msg = None
    /\ email_ids = << >>
    /\ idx = 0
    /\ unsubscribe_links = << >>
    /\ logouts = 0
    /\ exc = NoExc
    /\ links = << >>
    /\ link_idx = 0
    /\ total = 0
    /\ hist = << >>
    /\ response = NoResponse
    /\ log = << >>

NextScan ==
    \/ SearchOk
    \/ SearchRaises
    \/ FetchMessage
    \/ SkipMessage
    \/ ExtendLinks
    \/ ExtractionRaises
    \/ ReturnLinks
    \/ Logout

SpecScan == InitScan /\ [][NextScan]_vars

----------------------------------------------------------------------------
(* LinkHandler: a requests session whose adapters retry with               *)
(* Retry(total=retries, status_forcelist=[429, 500, 502, 503, 504]); the   *)
(* other fields of Retry keep their defaults (GET is retried, raise on     *)
(* exhausted status, the Retry-After header respected).                    *)

\* LinkHandler.__init__'s default, handed to Retry as total
retries == 3

\* the forcelist with 404 added
status_forcelist_with_404 == { 404, 429, 500, 502, 503, 504 }

\* line 97
status_forcelist == { 429, 500, 502, 503, 504 }

\* Retry.RETRY_AFTER_STATUS_CODES, which Retry(...) leaves at its default
RETRY_AFTER_STATUS_CODES == { 413, 429, 503 }

Resp(status, retry_after) ==
    [kind |-> "response", status |-> status, retry_after |-> retry_after,
     name |-> ""]

Exception(name) ==
    [kind |-> "exception", status |-> 0, retry_after |-> FALSE, name |-> name]

\* what one GET attempt can give: a response, with or without a Retry-After
\* header, or a network-level error (refused, reset, timed out)
NetworkError == Exception("NetworkError")

AttemptResults ==
    { Resp(200, FALSE), Resp(404, FALSE), Resp(413, FALSE), Resp(413, TRUE),
      Resp(500, FALSE), Resp(503, FALSE), NetworkError }

\* Retry.is_retry for a GET: a forcelisted status, or a Retry-After header on
\* one of RETRY_AFTER_STATUS_CODES while total is not 0
is_retry(r, t) ==
    \/ r.status \in status_forcelist
    \/ (t # 0 /\ r.retry_after /\ r.status \in RETRY_AFTER_STATUS_CODES)

\* an attempt that is tried again when retries are left: lines 94-98
Retryable(r, t) == r.kind = "exception" \/ is_retry(r, t)

\* Retry gives up when no retry is left at all
is_exhausted_one_early(t) == t < 1

\* Retry.is_exhausted, on the total that increment() has decremented
is_exhausted(t) == t < 0

\* the exception requests raises for urllib3's MaxRetryError: RetryError when
\* its reason is a response status, ConnectionError when it is an error
RaisedOnExhaustion(r) ==
    IF r.kind = "response" THEN Exception("RetryError")
    ELSE Exception("ConnectionError")

\* session.get_adapter: an adapter is mounted on http:// and https:// only
HasAdapter(link) ==
    \/ StartsWith(Lower(link), HttpPrefix)
    \/ StartsWith(Lower(link), HttpsPrefix)

\* an except clause that catches connection errors only
IsConnectionErrorOnly(name) == name = "ConnectionError"

\* line 113: the subclasses of requests.RequestException
IsRequestException(name) ==
    name \in { "ConnectionError", "RetryError", "InvalidSchema" }

\* lines 109-114 without the else branch: every response counts as accessed
OutcomeAnyResponseIsSuccess(link, r) ==
    IF r.kind = "exception"
    THEN [level |-> "error", link |-> link, status |-> 0, error |-> r.name]
    ELSE [level |-> "info", link |-> link, status |-> 200, error |-> ""]

\* lines 109-114: the record access_links writes for a link
Outcome(link, r) ==
    IF r.kind = "exception"
    THEN [level |-> "error", link |-> link, status |-> 0, error |-> r.name]
    ELSE IF r.status = 200
         THEN [level |-> "info", link |-> link, status |-> 200, error |-> ""]
         ELSE [level |-> "warning", link |-> link, status |-> r.status,
               error |-> ""]

\* line 108 for a link no adapter is mounted for: InvalidSchema, no request
GetWithoutAdapter ==
    /\ pc = "get"
    /\ link_idx <= Len(links)
    /\ ~HasAdapter(links[link_idx])
    /\ response' = Exception("InvalidSchema")
    /\ pc' = "log"
    /\ UNCHANGED << html_content, result, msg, mailbox, session, email_ids,
                    idx, unsubscribe_links, logouts, exc, links, link_idx,
                    total, hist, log >>

\* one GET attempt whose response is handed back to access_links
AttemptReturns ==
    /\ pc = "get"
    /\ link_idx <= Len(links)
    /\ HasAdapter(links[link_idx])
    /\ \E r \in AttemptResults :
          /\ ~Retryable(r, total)
          /\ hist' = Append(hist, r)
          /\ response' = r
    /\ pc' = "log"
    /\ UNCHANGED << html_content, result, msg, mailbox, session, email_ids,
                    idx, unsubscribe_links, logouts, exc, links, link_idx,
                    total, log >>

\* a retry left pending while the loop of line 106 goes on to the next link,
\* as a visit handed to a worker would be
AttemptRetriedInBackground ==
    /\ pc = "get"
    /\ link_idx <= Len(links)
    /\ HasAdapter(links[link_idx])
    /\ \E r \in AttemptResults :
          /\ Retryable(r, total)
          /\ ~is_exhausted(total - 1)
          /\ hist' = Append(hist, r)
    /\ total' = total - 1
    /\ link_idx' = link_idx + 1
    /\ UNCHANGED << pc, html_content, result, msg, mailbox, session,
                    email_ids, idx, unsubscribe_links, logouts, exc, links,
                    response, log >>

\* one GET attempt that is tried again after the backoff sleep
AttemptRetried ==
    /\ pc = "get"
    /\ link_idx <= Len(links)
    /\ HasAdapter(links[link_idx])
    /\ \E r \in AttemptResults :
          /\ Retryable(r, total)
          /\ ~is_exhausted(total - 1)
          /\ hist' = Append(hist, r)
    /\ total' = total - 1
    /\ UNCHANGED << pc, html_content, result, msg, mailbox, session,
                    email_ids, idx, unsubscribe_links, logouts, exc, links,
                    link_idx, response, log >>

\* one GET attempt after which Retry is exhausted: session.get raises
AttemptExhausted ==
    /\ pc = "get"
    /\ link_idx <= Len(links)
    /\ HasAdapter(links[link_idx])
    /\ \E r \in AttemptResults :
          /\ Retryable(r, total)
          /\ is_exhausted(total - 1)
          /\ hist' = Append(hist, r)
          /\ response' = RaisedOnExhaustion(r)
    /\ pc' = "log"
    /\ UNCHANGED << html_content, result, msg, mailbox, session, email_ids,
                    idx, unsubscribe_links, logouts, exc, links, link_idx,
                    total, log >>

\* a loop that starts over on the same link when the request failed, in
\* place of logging the failure and going on
LogOutcomeTriesLinkAgain ==
    /\ pc = "log"
    /\ IF response.kind = "exception"
       THEN /\ UNCHANGED << log, link_idx >>
       ELSE /\ log' = Append(log, Outcome(links[link_idx], response))
            /\ link_idx' = link_idx + 1
    /\ total' = retries
    /\ hist' = << >>
    /\ response' = NoResponse
    /\ pc' = "get"
    /\ UNCHANGED << html_content, result, msg, mailbox, session, email_ids,
                    idx, unsubscribe_links, logouts, exc, links >>

\* lines 109-114, then the next iteration of the loop of line 106
LogOutcome ==
    /\ pc = "log"
    /\ IF response.kind = "exception" /\ ~IsRequestException(response.name)
       THEN /\ exc' = response.name
            /\ pc' = "raised"
            /\ UNCHANGED << log, link_idx, total, hist, response >>
       ELSE /\ log' = Append(log, Outcome(links[link_idx], response))
            /\ link_idx' = link_idx + 1
            /\ total' = retries
            /\ hist' = << >>
            /\ response' = NoResponse
            /\ pc' = "get"
            /\ exc' = exc
    /\ UNCHANGED << html_content, result, msg, mailbox, session, email_ids,
                    idx, unsubscribe_links, logouts, links >>

AccessLinksReturns ==
    /\ pc = "get"
    /\ link_idx > Len(links)
    /\ pc' = "visited"
    /\ UNCHANGED << html_content, result, msg, mailbox, session, email_ids,
                    idx, unsubscribe_links, logouts, exc, links, link_idx,
                    total, hist, response, log >>

LinkSamples == { HrefUnsub, HrefUpper, HrefMailto }

InitVisit ==
    /\ pc = "get"
    /\ links \in SeqsUpTo(LinkSamples, MaxLinks)
    /\ link_idx = 1
    /\ total = retries
    /\ hist = << >>
    /\ response = NoResponse
    /\ log = << >>
    /\ html_content = << >>
    /\ result = << >>
    /\ msg = None
    /\ mailbox = NoMailbox
    /\ session = "none"
    /\ email_ids = << >>
    /\ idx = 0
    /\ unsubscribe_links = << >>
    /\ logouts = 0
    /\ exc = NoExc

NextVisit ==
    \/ GetWithoutAdapter
    \/ AttemptReturns
    \/ AttemptRetried
    \/ AttemptExhausted
    \/ LogOutcome
    \/ AccessLinksReturns

SpecVisit == InitVisit /\ [][NextVisit]_vars

----------------------------------------------------------------------------
(* main *)

\* line 120: EmailProcessor() connects, logs in and selects the inbox
ConnectOk ==
    /\ pc = "connect"
    /\ mailbox.connect = "OK"
    /\ session' = "open"
    /\ pc' = "search"
    /\ UNCHANGED << html_content, result, msg, mailbox, email_ids, idx,
                    unsubscribe_links, logouts, exc, links, link_idx, total,
                    hist, response, log >>

\* lines 35-36 without the raise of line 37: the error is logged only
OnConnectErrorLogOnly == "search"

\* line 37: the connection error leaves EmailProcessor() and main
OnConnectError == "raised"

\* lines 35-37: the connection error is logged and raised again
ConnectRaises ==
    /\ pc = "connect"
    /\ mailbox.connect = "error"
    /\ exc' = "IMAP4.error"
    /\ pc' = OnConnectError
    /\ UNCHANGED << html_content, result, msg, mailbox, session, email_ids,
                    idx, unsubscribe_links, logouts, links, link_idx, total,
                    hist, response, log >>

\* lines 123-125: a non-empty list is handed to a new LinkHandler
MainVisitsLinks ==
    /\ pc = "returned"
    /\ unsubscribe_links # << >>
    /\ links' = unsubscribe_links
    /\ link_idx' = 1
    /\ total' = retries
    /\ pc' = "get"
    /\ UNCHANGED << html_content, result, msg, mailbox, session, email_ids,
                    idx, unsubscribe_links, logouts, exc, hist, response, log >>

\* lines 126-127
MainNoLinks ==
    /\ pc = "returned"
    /\ unsubscribe_links = << >>
    /\ pc' = "done"
    /\ UNCHANGED << html_content, result, msg, mailbox, session, email_ids,
                    idx, unsubscribe_links, logouts, exc, links, link_idx,
                    total, hist, response, log >>

MainMailboxes ==
    { [connect |-> c, search |-> s, fetch |-> f] :
        c \in { "OK", "error" }, s \in { "OK", "error" },
        f \in SeqsUpTo(FetchAnswers, MaxMainIds) }

Init ==
    /\ pc = "connect"
    /\ mailbox \in MainMailboxes
    /\ session = "none"
    /\ html_content = << >>
    /\ result = << >>
    /\ msg = None
    /\ email_ids = << >>
    /\ idx = 0
    /\ unsubscribe_links = << >>
    /\ logouts = 0
    /\ exc = NoExc
    /\ links = << >>
    /\ link_idx = 0
    /\ total = 0
    /\ hist = << >>
    /\ response = NoResponse
    /\ log = << >>

Next ==
    \/ ConnectOk
    \/ ConnectRaises
    \/ NextScan
    \/ MainVisitsLinks
    \/ MainNoLinks
    \/ NextVisit

Spec == Init /\ [][Next]_vars

\* the fetch answers of the runs checked for termination, one of each kind
\* the run tells apart: a failed fetch, a message with a link, a message
\* with a link no adapter is mounted for, a message whose extraction raises
FairAnswers ==
    { None,
      Some(Leaf("text/html", TRUE, << Element("a", TRUE, HrefUnsub) >>)),
      Some(Container(<< Container(<< Leaf("text/html", FALSE,
                                     << Element("a", TRUE, HrefMailto) >>) >>) >>)),
      Some(Leaf("text/plain", FALSE, << >>)) }

InitFair ==
    /\ Init
    /\ \A i \in 1..Len(mailbox.fetch) : mailbox.fetch[i] \in FairAnswers

\* every mailbox command and every HTTP attempt returns: a step that can be
\* taken is taken
SpecFair == InitFair /\ [][Next]_vars /\ WF_vars(Next)

----------------------------------------------------------------------------
(* Properties *)

RetryableSet == { 429, 500, 502, 503, 504 }

AllAttemptsGave503 ==
    /\ hist # << >>
    /\ \A i \in 1..Len(hist) :
          hist[i].kind = "response" /\ hist[i].status = 503

\* C1 as stated: a link whose every attempt returns 503, under a limit of 3,
\* gets exactly 3 GET attempts and ends as a failed status 503
C1_ThreeAttemptsThenHTTPFailure ==
    (pc = "log" /\ AllAttemptsGave503) =>
        /\ Len(hist) = retries
        /\ response.kind = "response"
        /\ response.status = 503
        /\ Outcome(links[link_idx], response).level = "warning"

\* C1 amended: a link whose every attempt returns 503 gets retries + 1 = 4
\* GET attempts, after which session.get raises RetryError and access_links
\* reports the link through its except branch, not as a failed status 503
C1_FourAttemptsThenRetryError ==
    /\ (pc = "get" /\ AllAttemptsGave503) => Len(hist) <= retries
    /\ (pc = "log" /\ AllAttemptsGave503) =>
          /\ Len(hist) = retries + 1
          /\ response = Exception("RetryError")
          /\ Outcome(links[link_idx], response).level = "error"
          /\ Outcome(links[link_idx], response).status # 503

C1_Witness ==
    /\ pc = "log"
    /\ AllAttemptsGave503
    /\ Len(hist) = 4
    /\ response.name = "RetryError"

\* the i-th attempt of the link at hand was the last one and its response is
\* the one access_links classifies
C2_EndsRetries(i) ==
    /\ i = Len(hist)
    /\ pc = "log"
    /\ response = hist[i]

C2_FirstAttemptCases ==
    /\ (hist # << >> /\ hist[1] = Resp(200, FALSE)) =>
          /\ Len(hist) = 1
          /\ Outcome(links[link_idx], response).level = "info"
    /\ (hist # << >> /\ hist[1] = Resp(404, FALSE)) =>
          /\ Len(hist) = 1
          /\ Outcome(links[link_idx], response).level = "warning"
          /\ Outcome(links[link_idx], response).status = 404

\* C2 as stated: a status outside {429, 500, 502, 503, 504} ends the retries
\* of the link at once (200: one attempt, Success; 404: one attempt,
\* HTTPFailure(404)), and an attempt is followed by another one only if it
\* failed with a network error or returned a status of that set
C2_OnlyRetryableSetIsRetried ==
    /\ \A i \in 1..Len(hist) :
          (hist[i].kind = "response" /\ hist[i].status \notin RetryableSet)
              => C2_EndsRetries(i)
    /\ \A i \in 1..(Len(hist) - 1) :
          \/ hist[i].kind = "exception"
          \/ hist[i].status \in RetryableSet
    /\ C2_FirstAttemptCases

\* C2 amended: a status outside {429, 500, 502, 503, 504} ends the retries of
\* the link at once unless it is a 413 that carries a Retry-After header and
\* retries are left; an attempt is followed by another one only if it failed
\* with a network error, returned a status of that set, or returned such a 413
C2_RetryableSetOr413RetryAfter ==
    /\ \A i \in 1..Len(hist) :
          ( /\ hist[i].kind = "response"
            /\ hist[i].status \notin RetryableSet
            /\ ~(hist[i].status = 413 /\ hist[i].retry_after /\ i <= retries) )
              => C2_EndsRetries(i)
    /\ \A i \in 1..(Len(hist) - 1) :
          \/ hist[i].kind = "exception"
          \/ hist[i].status \in RetryableSet
          \/ (hist[i].status = 413 /\ hist[i].retry_after)
    /\ C2_FirstAttemptCases

C2_Witness ==
    /\ pc = "log"
    /\ hist = << Resp(413, TRUE), Resp(404, FALSE) >>
    /\ response = Resp(404, FALSE)

\* C3: access_links reports exactly one outcome per input link, in input
\* order, goes on after a failed link, and lets no exception out
C3_OneOutcomePerLinkInOrder ==
    /\ pc # "raised"
    /\ exc = NoExc
    /\ Len(log) = link_idx - 1
    /\ \A i \in 1..Len(log) : log[i].link = links[i]
    /\ pc = "visited" => Len(log) = Len(links)

C3_Witness ==
    /\ pc = "visited"
    /\ Len(links) = 2
    /\ links[1] # links[2]
    /\ log[1].level = "error"
    /\ log[1].error = "RetryError"
    /\ log[2].level = "info"

\* C4: find_unsubscribe_links logs out exactly once on every exit path, and
\* not before the scan has ended
C4_LogoutExactlyOnce ==
    /\ pc \in { "returned", "raised" } => (logouts = 1 /\ session = "closed")
    /\ pc \in { "search", "loop", "fetched", "finally" } =>
          (logouts = 0 /\ session = "open")

C4_Witness ==
    /\ pc = "raised"
    /\ exc = "UnicodeDecodeError"
    /\ idx = 2
    /\ logouts = 1

\* the links of the messages among the first n identifiers whose fetch
\* succeeded, in identifier order
C5_LinksOfFetched(n) ==
    Flatten([i \in 1..n |->
                IF mailbox.fetch[i] = None THEN << >>
                ELSE extract_links_from_email(mailbox.fetch[i][1]).links])

\* C5: a fetch failure skips that identifier only: the scan never ends at an
\* identifier whose fetch failed, and the links gathered are exactly those of
\* the messages whose fetch succeeded
C5_FetchFailureSkipsOnlyThatId ==
    /\ pc = "loop" => unsubscribe_links = C5_LinksOfFetched(idx - 1)
    /\ pc = "returned" =>
          unsubscribe_links = C5_LinksOfFetched(Len(mailbox.fetch))
    /\ (pc \in { "finally", "raised" } /\ exc # NoExc /\ mailbox.search = "OK")
          => mailbox.fetch[idx] # None
    /\ (pc = "fetched" /\ mailbox.fetch[idx] = None) => msg = None

C5_Witness ==
    /\ pc = "returned"
    /\ Len(mailbox.fetch) = 3
    /\ mailbox.fetch[1] = None
    /\ mailbox.fetch[2] # None
    /\ mailbox.fetch[3] # None
    /\ extract_links_from_email(mailbox.fetch[3][1]).links # << >>
    /\ unsubscribe_links = C5_LinksOfFetched(3)

\* C6: a payload that cannot be decoded does not abort the extraction nor
\* the scan: every identifier the search gave is processed and the scan
\* returns
C6_DecodeFailureIsSkipped ==
    mailbox.search = "OK" =>
        /\ exc = NoExc
        /\ pc \in { "finally", "returned" } => idx = Len(email_ids) + 1

C7_HasHtmlPart(m) ==
    \E i \in 1..Len(walk(m)) : walk(m)[i].ctype = "text/html"

\* C7: a message with no text/html part gives the empty sequence and no
\* error, whatever the payload bytes of its parts
C7_NoHtmlPartGivesEmpty ==
    (pc \in { "extract_returned", "extract_raised" } /\ ~C7_HasHtmlPart(msg[1]))
        => (pc = "extract_returned" /\ result = << >>)

\* C8: once the connection is established nothing propagates out of the
\* pipeline: main raises only when the connection failed
C8_OnlyConnectionFailurePropagates ==
    pc = "raised" => (session = "none" /\ logouts = 0)

C9_Kept(e) == e.tag = "a" /\ e.has_href /\ Contains(Needle, Lower(e.href))

C9_KeptAt == { i \in 1..Len(html_content) : C9_Kept(html_content[i]) }

\* C9: _parse_html_for_links returns the hrefs of the anchors that have an
\* href whose lowercased value contains "unsubscribe", in document order:
\* the k-th kept anchor's href is the k-th element of the result
C9_UnsubscribeHrefsInDocumentOrder ==
    pc = "parse_returned" =>
        /\ Len(result) = Cardinality(C9_KeptAt)
        /\ \A i \in C9_KeptAt :
              result[Cardinality({ j \in C9_KeptAt : j <= i })]
                  = html_content[i].href
        /\ \A i \in 1..Len(html_content) :
              html_content[i] = Element("a", TRUE, HrefUpper)
                  => \E k \in 1..Len(result) : result[k] = HrefUpper
        /\ \A k \in 1..Len(result) :
              result[k] \notin { HrefStay, HrefEmpty }

C9_Witness ==
    /\ pc = "parse_returned"
    /\ html_content
          = << Element("a", TRUE, HrefStay), Element("a", TRUE, HrefUpper) >>
    /\ result = << HrefUpper >>

RECURSIVE C10_LeafLinks(_)
\* the unsubscribe links of the text/html leaves under p, leaves taken left
\* to right
C10_LeafLinks(p) ==
    IF p.parts = << >>
    THEN IF p.ctype = "text/html" THEN parse_html_for_links(p.html) ELSE << >>
    ELSE Flatten([i \in 1..Len(p.parts) |-> C10_LeafLinks(p.parts[i])])

\* C10: for a multi-part message, nested or not, the extraction returns the
\* links of every text/html leaf, in part order
C10_NestedHtmlLeavesFound ==
    (pc \in { "extract_returned", "extract_raised" } /\ is_multipart(msg[1]))
        => (pc = "extract_returned" /\ result = C10_LeafLinks(msg[1]))

C10_Witness ==
    /\ pc = "extract_returned"
    /\ is_multipart(msg[1])
    /\ \A i \in 1..Len(msg[1].parts) : is_multipart(msg[1].parts[i])
    /\ Len(msg[1].parts) = 2
    /\ result = << HrefUnsub, HrefUpper >>

RECURSIVE C11_Count(_)
\* the number of links of the messages among the first n identifiers that
\* were fetched and extracted
C11_Count(n) ==
    IF n = 0 THEN 0
    ELSE C11_Count(n - 1)
            + (IF mailbox.fetch[n] = None THEN 0
               ELSE Len(extract_links_from_email(mailbox.fetch[n][1]).links))

\* C11: the returned sequence holds, for each fetched message in identifier
\* order, that message's links at the places that follow the links of the
\* messages before it; no link is dropped as a duplicate
C11_ConcatenationInSearchOrder ==
    pc = "returned" =>
        /\ Len(unsubscribe_links) = C11_Count(Len(mailbox.fetch))
        /\ \A n \in 1..Len(mailbox.fetch) :
              mailbox.fetch[n] # None =>
                  LET ls == extract_links_from_email(mailbox.fetch[n][1]).links
                  IN  \A k \in 1..Len(ls) :
                          unsubscribe_links[C11_Count(n - 1) + k] = ls[k]

C11_Witness ==
    /\ pc = "returned"
    /\ Len(mailbox.fetch) = 3
    /\ unsubscribe_links = << HrefUpper, HrefUnsub, HrefUnsub, HrefUnsub >>


C12_Last == hist[Len(hist)]

C12_AllAttemptsFailedOnNetwork ==
    /\ hist # << >>
    /\ \A i \in 1..Len(hist) : hist[i].kind = "exception"

C12_Reported == Outcome(links[link_idx], response)

C13_ConnectionFailureAbortsRun ==
    mailbox.connect = "error" =>
        /\ pc \in { "connect", "raised" }
        /\ pc = "raised" => exc = "IMAP4.error"
        /\ session = "none"
        /\ email_ids = << >>
        /\ idx = 0
        /\ msg = None
        /\ unsubscribe_links = << >>
        /\ logouts = 0
        /\ links = << >>
        /\ hist = << >>
        /\ response = NoResponse
        /\ log = << >>

C13_Witness ==
    /\ mailbox.connect = "error"
    /\ mailbox.search = "OK"
    /\ Len(mailbox.fetch) = 2
    /\ pc = "raised"
    /\ exc = "IMAP4.error"

\* the links of the text/html parts of the message the n-th fetch gave
C14_HtmlLinks(n) ==
    IF mailbox.fetch[n] = None THEN << >>
    ELSE C10_LeafLinks(mailbox.fetch[n][1])

C14_NothingToVisit ==
    /\ mailbox.connect = "OK"
    /\ mailbox.search = "OK"
    /\ \A n \in 1..Len(mailbox.fetch) : C14_HtmlLinks(n) = << >>

\* C14: when the search matches nothing or no fetched message holds a link,
\* find_unsubscribe_links returns the empty sequence and raises nothing, the
\* session is logged out, and main issues no HTTP request
C14_EmptyResultIsNotAnError ==
    C14_NothingToVisit =>
        /\ pc \in { "connect", "search", "loop", "fetched", "finally",
                    "returned", "done" }
        /\ exc = NoExc
        /\ unsubscribe_links = << >>
        /\ pc \in { "returned", "done" } => (logouts = 1 /\ session = "closed")
        /\ links = << >>
        /\ hist = << >>
        /\ log = << >>

\* the mailbox side of the run: the commands sent to the server and what the
\* loop of lines 60-63 holds
C15_MailboxSide == << session, email_ids, idx, msg, logouts >>

\* the HTTP side of the run: the attempts made and the outcomes logged
C15_HttpSide == << hist, response, log >>

\* C15: the run is strictly sequential. A message is fetched only from the
\* head of the loop, it is the message of the current identifier, and the
\* next identifier is taken only when that message has been dealt with; an
\* attempt on a link is made only when every earlier link has its outcome
\* and it leaves the loop on the same link; an outcome moves the loop to the
\* next link with no attempt made yet; and no step is both a mailbox
\* command and an HTTP attempt
C15_StrictlySequential ==
    [][ /\ (pc' = "fetched" /\ pc # "fetched") =>
              /\ pc = "loop"
              /\ idx' = idx
              /\ msg' = mailbox.fetch[email_ids[idx]]
        /\ (idx' # idx /\ idx # 0) =>
              /\ pc = "fetched"
              /\ idx' = idx + 1
              /\ pc' \in { "loop", "finally", "raised" }
        /\ (hist' # hist /\ hist' # << >>) =>
              /\ Len(hist') = Len(hist) + 1
              /\ link_idx' = link_idx
              /\ Len(log) = link_idx - 1
        /\ (log' # log) =>
              /\ Len(log') = Len(log) + 1
              /\ Len(log') = link_idx
              /\ link_idx' = link_idx + 1
              /\ hist' = << >>
        /\ ~(C15_MailboxSide' # C15_MailboxSide /\ C15_HttpSide' # C15_HttpSide)
      ]_vars

C15_Witness ==
    /\ pc = "get"
    /\ Len(email_ids) = 2
    /\ link_idx = 2
    /\ Len(log) = 1
    /\ Len(hist) = 2

\* what a call of _extract_links_from_email could touch: the message, the
\* processor's list of links and the mailbox session
C16_StateAroundCall ==
    << msg, mailbox, session, email_ids, idx, unsubscribe_links, logouts,
       html_content >>

C17_SkipsOnlyFailedFetch ==
    [][SkipMessage => msg = None]_vars

\* the HTTP phase has begun: access_links is running or has run
C18_HttpPhase ==
    \/ pc \in { "get", "log", "visited" }
    \/ hist # << >>
    \/ log # << >>
    \/ response # NoResponse

\* C18: the mailbox phase strictly precedes the HTTP phase: whenever an
\* HTTP GET is or was issued the session has been logged out (once) after
\* the search and the fetch of every identifier, and once the session is
\* closed no step issues a mailbox command (search, fetch or logout)
C18_MailboxPhaseBeforeHttpPhase ==
    /\ [](C18_HttpPhase =>
            /\ session = "closed"
            /\ logouts = 1
            /\ idx = Len(email_ids) + 1)
    /\ [][session = "closed" =>
            /\ session' = "closed"
            /\ logouts' = logouts
            /\ email_ids' = email_ids
            /\ idx' = idx
            /\ msg' = msg
            /\ unsubscribe_links' = unsubscribe_links]_vars

C18_Witness ==
    /\ pc = "get"
    /\ Len(hist) = 1
    /\ session = "closed"
    /\ Len(email_ids) = 2
    /\ idx = 3
    /\ Len(links) = 2

\* the run of main is over: nothing to visit, every link visited, or an
\* exception that ended the run
C19_RunEnded == pc \in { "done", "visited", "raised" }

\* C19: a run of main terminates. Each identifier is fetched at most once
\* (a fetch is made for the current identifier and the loop never goes
\* back), each link gets at most retries + 1 attempts and the loop never
\* goes back to a link, the run that visited links ends with one outcome
\* per link, and every run reaches its end
C19_RunTerminates ==
    /\ [](Len(hist) <= retries + 1)
    /\ [](pc = "visited" => Len(log) = Len(links))
    /\ [][ /\ idx' >= idx
           /\ link_idx' >= link_idx
           /\ (pc = "fetched" /\ pc' = "loop") => idx' = idx + 1
           /\ (pc = "log" /\ pc' = "get") => link_idx' = link_idx + 1
           /\ C19_RunEnded => UNCHANGED vars ]_vars
    /\ <>C19_RunEnded

C19_Witness ==
    /\ pc = "visited"
    /\ Len(email_ids) = 2
    /\ Len(links) = 2
    /\ Len(log) = 2
    /\ log[1] # log[2]

====
